---- MODULE Spec2Model ----
(***************************************************************************)
(* A model of github.com/basvdlei/godatatables, package types: the form    *)
(* decoder ParseURLValues, the Row codec (Row.MarshalJSON and              *)
(* Row.UnmarshalJSON) and the JSON document codec of Request; and package  *)
(* mongo: CollectionHandler.ServeHTTP, CreateFilter, SortQuery, RangeQuery *)
(* and ResponseData.                                                       *)
(*                                                                         *)
(* Go strings are TLA+ strings, read character by character with SubSeq.   *)
(* A Go map is a function on a finite set of strings, a slice a sequence;  *)
(* a nil map or slice and an empty one are the same value here.  A JSON    *)
(* document is its value tree (JStr, JNum, JBool, JNull, JArr, JObj): the  *)
(* bytes encoding/json writes and reads back are not modelled, and strings *)
(* are valid UTF-8 without line breaks.                                    *)
(***************************************************************************)
EXTENDS Integers, Sequences, FiniteSets, TLC

VARIABLES
  pc,     \* where the caller is
  u,      \* the url.Values handed to ParseURLValues
  ord,    \* the keys the range loop has visited, in order
  r,      \* ParseURLValues' named result r
  err,    \* the error of the last call
  doc,    \* the JSON value written or read
  src,    \* the Row handed to MarshalJSON
  prior,  \* the destination Row before UnmarshalJSON
  row,    \* the destination Row after UnmarshalJSON
  req,    \* the Request json.Unmarshal filled
  dtRequest,  \* the Request handed to the functions of package mongo
  coll,   \* the collection of the handler: what Count and All answer
  query,  \* the Query as Find, Sort, Skip and Limit left it
  writer  \* the ResponseWriter: the status and the body written

\* the state of package mongo
web == <<dtRequest, coll, query, writer>>

vars == <<pc, u, ord, r, err, doc, src, prior, row, req, dtRequest, coll, query, writer>>

(***************************************************************************)
(* Bounds of the model.                                                    *)
(***************************************************************************)
\* the largest number of keys of one url.Values
MaxKeys == 2
\* the largest index spelled canonically in a columns[i] or order[i] key
MaxIdx == 1
\* the longest JSON array decoded as a row
MaxArr == 2

(***************************************************************************)
(* Strings.                                                                *)
(***************************************************************************)
Ch(s, i) == SubSeq(s, i, i)

HasPrefix(s, p) == Len(s) >= Len(p) /\ SubSeq(s, 1, Len(p)) = p

DigitVal ==
  ("0" :> 0) @@ ("1" :> 1) @@ ("2" :> 2) @@ ("3" :> 3) @@ ("4" :> 4) @@
  ("5" :> 5) @@ ("6" :> 6) @@ ("7" :> 7) @@ ("8" :> 8) @@ ("9" :> 9)

\* [0-9]+
AllDigits(s) == Len(s) > 0 /\ \A i \in 1..Len(s) : Ch(s, i) \in DOMAIN DigitVal

RECURSIVE DecVal(_)
DecVal(s) ==
  IF s = "" THEN 0
  ELSE 10 * DecVal(SubSeq(s, 1, Len(s) - 1)) + DigitVal[Ch(s, Len(s))]

\* errors
Nil == "nil"
ErrNotEnoughFields == "not enough fields"
ErrSyntax == "invalid syntax"

\* strconv.Atoi: an optional sign and one or more decimal digits; 0 and a
\* syntax error otherwise.  (The range error needs more than 18 digits, which
\* no input of the model has.)
Atoi(s) ==
  LET signed == s # "" /\ Ch(s, 1) \in {"+", "-"}
      body == IF signed THEN SubSeq(s, 2, Len(s)) ELSE s
  IN IF AllDigits(body)
     THEN [val |-> IF signed /\ Ch(s, 1) = "-" THEN 0 - DecVal(body) ELSE DecVal(body),
           err |-> Nil]
     ELSE [val |-> 0, err |-> ErrSyntax]

\* strconv.Itoa
Itoa(i) == ToString(i)

\* the position of the first "]" of k at or after p, 0 when there is none
FirstClose(k, p) ==
  LET S == {i \in p..Len(k) : Ch(k, i) = "]"}
  IN IF S = {} THEN 0 ELSE CHOOSE i \in S : \A j \in S : i <= j

\* "." of a regular expression matches no line break
NoNewline(s) == \A i \in 1..Len(s) : Ch(s, i) # "\n"

(***************************************************************************)
(* The three regular expressions, as FindStringSubmatch answers: <<>> (a   *)
(* nil slice) when k does not match, else the match and its groups.  (?U)  *)
(* makes every repetition take the shortest text that lets the rest match. *)
(***************************************************************************)
\* (?U)^columns\[([0-9]+)\]\[(.+)\](.*)$
columnRegexp(k) ==
  LET pre == "columns["
      n == Len(k)
      c == FirstClose(k, Len(pre) + 1)
      id == SubSeq(k, Len(pre) + 1, c - 1)
      p == c + 2
      q == FirstClose(k, p + 1)
  IN IF /\ HasPrefix(k, pre)
        /\ c # 0
        /\ AllDigits(id)
        /\ c + 1 <= n
        /\ Ch(k, c + 1) = "["
        /\ q # 0
        /\ NoNewline(SubSeq(k, p, n))
     THEN <<k, id, SubSeq(k, p, q - 1), SubSeq(k, q + 1, n)>>
     ELSE <<>>

\* (?U)^search\[(.+)\]$
searchRegexp(k) ==
  LET pre == "search["
      n == Len(k)
  IN IF /\ HasPrefix(k, pre)
        /\ n >= Len(pre) + 2
        /\ Ch(k, n) = "]"
        /\ NoNewline(k)
     THEN <<k, SubSeq(k, Len(pre) + 1, n - 1)>>
     ELSE <<>>

\* (?U)^order\[([0-9]+)\]\[(.+)\]$
orderRegexp(k) ==
  LET pre == "order["
      n == Len(k)
      c == FirstClose(k, Len(pre) + 1)
      id == SubSeq(k, Len(pre) + 1, c - 1)
      p == c + 2
  IN IF /\ HasPrefix(k, pre)
        /\ c # 0
        /\ AllDigits(id)
        /\ c + 1 <= n
        /\ Ch(k, c + 1) = "["
        /\ n >= p + 1
        /\ Ch(k, n) = "]"
        /\ NoNewline(k)
     THEN <<k, id, SubSeq(k, p, n - 1)>>
     ELSE <<>>

(***************************************************************************)
(* The data model.                                                         *)
(***************************************************************************)
OrderAscending == "asc"
OrderDescending == "desc"

ZeroSearch == [Value |-> "", Regex |-> FALSE]
ZeroOrder == [Column |-> 0, Dir |-> ""]
ZeroColumn ==
  [Data |-> "", Name |-> "", Searchable |-> FALSE, Orderable |-> FALSE,
   Search |-> ZeroSearch]
ZeroRequest ==
  [Draw |-> 0, Start |-> 0, Length |-> 0, Search |-> ZeroSearch,
   Order |-> <<>>, Columns |-> <<>>]

\* make([]T, id+1); copy(out, in) when id+1 > len(in), else in itself
Grow(in, id, zero) ==
  IF id + 1 > Len(in)
  THEN [i \in 1..(id + 1) |-> IF i <= Len(in) THEN in[i] ELSE zero]
  ELSE in

(***************************************************************************)
(* The form decoder.  Each parse function answers [out, err].              *)
(***************************************************************************)
\* parseSearch that lets a key without fields pass
parseSearch_FieldsOptional(s, k, v) ==
  LET m == searchRegexp(k)
  IN IF Len(m) < 2 THEN [out |-> s, err |-> Nil]
     ELSE IF m[2] = "value" THEN [out |-> [s EXCEPT !.Value = v], err |-> Nil]
     ELSE IF m[2] = "regex" THEN [out |-> [s EXCEPT !.Regex = (v = "true")], err |-> Nil]
     ELSE [out |-> s, err |-> Nil]

parseSearch(s, k, v) ==
  LET m == searchRegexp(k)
  IN IF Len(m) < 2 THEN [out |-> s, err |-> ErrNotEnoughFields]
     ELSE IF m[2] = "value" THEN [out |-> [s EXCEPT !.Value = v], err |-> Nil]
     ELSE IF m[2] = "regex" THEN [out |-> [s EXCEPT !.Regex = (v = "true")], err |-> Nil]
     ELSE [out |-> s, err |-> Nil]

parseOrder(o, k, v) ==
  LET m == orderRegexp(k)
  IN IF Len(m) < 3 THEN [out |-> o, err |-> ErrNotEnoughFields]
     ELSE
       LET a == Atoi(m[2])
           id == a.val
           out == Grow(o, id, ZeroOrder)
       IN IF a.err # Nil THEN [out |-> <<>>, err |-> a.err]
          ELSE IF m[3] = "column"
          THEN LET c == Atoi(v)
               IN [out |-> [out EXCEPT ![id + 1].Column = c.val], err |-> c.err]
          ELSE IF m[3] = "dir"
          THEN IF v = "asc"
               THEN [out |-> [out EXCEPT ![id + 1].Dir = OrderAscending], err |-> Nil]
               ELSE IF v = "desc"
               THEN [out |-> [out EXCEPT ![id + 1].Dir = OrderDescending], err |-> Nil]
               ELSE [out |-> out, err |-> Nil]
          ELSE [out |-> out, err |-> Nil]

parseColumn(in, k, v) ==
  LET m == columnRegexp(k)
  IN IF Len(m) < 2 THEN [out |-> in, err |-> ErrNotEnoughFields]
     ELSE
       LET a == Atoi(m[2])
           id == a.val
           out == Grow(in, id, ZeroColumn)
       IN IF a.err # Nil THEN [out |-> in, err |-> a.err]
          ELSE IF m[3] = "data"
          THEN [out |-> [out EXCEPT ![id + 1].Data = v], err |-> Nil]
          ELSE IF m[3] = "name"
          THEN [out |-> [out EXCEPT ![id + 1].Name = v], err |-> Nil]
          ELSE IF m[3] = "searchable"
          THEN [out |-> [out EXCEPT ![id + 1].Searchable = (v = "true")], err |-> Nil]
          ELSE IF m[3] = "orderable"
          THEN [out |-> [out EXCEPT ![id + 1].Orderable = (v = "true")], err |-> Nil]
          ELSE IF m[3] = "search"
          THEN IF Len(m) > 3
               THEN LET s == parseSearch(out[id + 1].Search, "search" \o m[4], v)
                    IN [out |-> [out EXCEPT ![id + 1].Search = s.out], err |-> s.err]
               ELSE [out |-> out, err |-> Nil]
          ELSE [out |-> out, err |-> Nil]

\* One iteration of ParseURLValues' range loop, for key k with values v, on
\* the named result rq: [r, err] after the switch.
LoopBody(rq, k, v) ==
  IF Len(v) < 1 THEN [r |-> rq, err |-> Nil]
  ELSE IF k = "draw"
  THEN LET a == Atoi(v[1]) IN [r |-> [rq EXCEPT !.Draw = a.val], err |-> a.err]
  ELSE IF k = "start"
  THEN LET a == Atoi(v[1]) IN [r |-> [rq EXCEPT !.Start = a.val], err |-> a.err]
  ELSE IF k = "length"
  THEN LET a == Atoi(v[1]) IN [r |-> [rq EXCEPT !.Length = a.val], err |-> a.err]
  ELSE IF HasPrefix(k, "search")
  THEN LET s == parseSearch(rq.Search, k, v[1])
       IN [r |-> [rq EXCEPT !.Search = s.out], err |-> s.err]
  ELSE IF HasPrefix(k, "order")
  THEN LET s == parseOrder(rq.Order, k, v[1])
       IN [r |-> [rq EXCEPT !.Order = s.out], err |-> s.err]
  ELSE IF HasPrefix(k, "column")
  THEN LET s == parseColumn(rq.Columns, k, v[1])
       IN [r |-> [rq EXCEPT !.Columns = s.out], err |-> s.err]
  ELSE [r |-> rq, err |-> Nil]

\* The range loop over the keys in the order o, from the result rq: it
\* returns at the first error.
RECURSIVE RangeLoop(_, _, _)
RangeLoop(rq, uv, o) ==
  IF o = <<>> THEN [r |-> rq, err |-> Nil]
  ELSE LET s == LoopBody(rq, Head(o), uv[Head(o)])
       IN IF s.err # Nil THEN s ELSE RangeLoop(s.r, uv, Tail(o))

\* ParseURLValues(uv) when Go's map iteration visits the keys in the order o.
ParseURLValues(uv, o) == RangeLoop(ZeroRequest, uv, o)

\* every order in which range may visit the keys K
Orders(K) ==
  {o \in [1..Cardinality(K) -> K] : \A i, j \in 1..Cardinality(K) : i # j => o[i] # o[j]}

\* the sequence o without the key k
Without(o, k) == SelectSeq(o, LAMBDA x : x # k)

(***************************************************************************)
(* JSON values, and encoding/json's Unmarshal into the Go types the code   *)
(* hands it.  Each decoder answers [val, err].  Object keys are matched    *)
(* exactly.                                                                *)
(***************************************************************************)
ErrType == "json: cannot unmarshal"

JStr(s) == [t |-> "str", s |-> s]
JNum(n) == [t |-> "num", n |-> n]
JBool(b) == [t |-> "bool", b |-> b]
JNull == [t |-> "null"]
JArr(a) == [t |-> "arr", a |-> a]
JObj(o) == [t |-> "obj", o |-> o]

EmptyMap == [k \in {} |-> ""]

\* m[k] = v
MapPut(m, k, v) == [x \in DOMAIN m \cup {k} |-> IF x = k THEN v ELSE m[x]]

\* delete(m, k) for every k of K
MapDelete(m, K) == [x \in DOMAIN m \ K |-> m[x]]

\* the member k of the object o, null when it has none
Member(o, k) == IF k \in DOMAIN o THEN o[k] ELSE JNull

\* json.Unmarshal(in, &rowData), rowData a nil []string
UnmarshalStrings(j) ==
  IF j.t = "null" THEN [val |-> <<>>, err |-> Nil]
  ELSE IF j.t = "arr" /\ \A i \in 1..Len(j.a) : j.a[i].t \in {"str", "null"}
  THEN [val |-> [i \in 1..Len(j.a) |-> IF j.a[i].t = "str" THEN j.a[i].s ELSE ""],
        err |-> Nil]
  ELSE [val |-> <<>>, err |-> ErrType]

\* json.Unmarshal(in, &data), data an empty map[string]string
UnmarshalStringMap(j) ==
  IF j.t = "null" THEN [val |-> EmptyMap, err |-> Nil]
  ELSE IF j.t = "obj" /\ \A k \in DOMAIN j.o : j.o[k].t \in {"str", "null"}
  THEN [val |-> [k \in DOMAIN j.o |-> IF j.o[k].t = "str" THEN j.o[k].s ELSE ""],
        err |-> Nil]
  ELSE [val |-> EmptyMap, err |-> ErrType]

\* a JSON value into a Go string, bool or int that holds cur
UnmarshalString(j, cur) ==
  IF j.t = "str" THEN [val |-> j.s, err |-> Nil]
  ELSE IF j.t = "null" THEN [val |-> cur, err |-> Nil]
  ELSE [val |-> cur, err |-> ErrType]

UnmarshalBool(j, cur) ==
  IF j.t = "bool" THEN [val |-> j.b, err |-> Nil]
  ELSE IF j.t = "null" THEN [val |-> cur, err |-> Nil]
  ELSE [val |-> cur, err |-> ErrType]

UnmarshalInt(j, cur) ==
  IF j.t = "num" THEN [val |-> j.n, err |-> Nil]
  ELSE IF j.t = "null" THEN [val |-> cur, err |-> Nil]
  ELSE [val |-> cur, err |-> ErrType]

\* the first error of a sequence of errors, Nil when there is none
FirstErr(es) ==
  LET S == {i \in 1..Len(es) : es[i] # Nil}
  IN IF S = {} THEN Nil ELSE es[CHOOSE i \in S : \A j \in S : i <= j]

(***************************************************************************)
(* The Row codec.                                                          *)
(***************************************************************************)
ZeroRow ==
  [Data |-> EmptyMap, RowID |-> "", RowClass |-> "", RowData |-> EmptyMap,
   RowAttr |-> EmptyMap]

ReservedKeys == {"DT_RowId", "DT_RowClass", "DT_RowData", "DT_RowAttr"}

\* json.Unmarshal(in, &c), c a zero rowCopy
UnmarshalRowCopy(j) ==
  LET zero == [RowID |-> "", RowClass |-> "", RowData |-> EmptyMap, RowAttr |-> EmptyMap]
  IN IF j.t = "null" THEN [val |-> zero, err |-> Nil]
     ELSE IF j.t # "obj" THEN [val |-> zero, err |-> ErrType]
     ELSE LET id == UnmarshalString(Member(j.o, "DT_RowId"), "")
              class == UnmarshalString(Member(j.o, "DT_RowClass"), "")
              data == UnmarshalStringMap(Member(j.o, "DT_RowData"))
              attr == UnmarshalStringMap(Member(j.o, "DT_RowAttr"))
          IN [val |-> [RowID |-> id.val, RowClass |-> class.val,
                       RowData |-> data.val, RowAttr |-> attr.val],
              err |-> FirstErr(<<id.err, class.err, data.err, attr.err>>)]

\* ArrayRowData with the keys counted from 1
RECURSIVE ArrayRowData_OneBased(_, _)
ArrayRowData_OneBased(rowData, n) ==
  IF n = 0 THEN EmptyMap
  ELSE MapPut(ArrayRowData_OneBased(rowData, n - 1), Itoa(n), rowData[n])

\* the loop over rowData[0..n-1]: r.Data[strconv.Itoa(i)] = v
RECURSIVE ArrayRowData(_, _)
ArrayRowData(rowData, n) ==
  IF n = 0 THEN EmptyMap
  ELSE MapPut(ArrayRowData(rowData, n - 1), Itoa(n - 1), rowData[n])

\* (r *Row) UnmarshalJSON(in): [row, err], row what the destination rw holds
\* when the method returns
RowUnmarshalJSON(rw, j) ==
  LET a == UnmarshalStrings(j)
      c == UnmarshalRowCopy(j)
      copied == [rw EXCEPT !.RowID = c.val.RowID, !.RowClass = c.val.RowClass,
                           !.RowData = c.val.RowData, !.RowAttr = c.val.RowAttr]
      d == UnmarshalStringMap(j)
  IN IF a.err = Nil
     THEN [row |-> [rw EXCEPT !.Data = ArrayRowData(a.val, Len(a.val))], err |-> Nil]
     ELSE IF c.err # Nil THEN [row |-> rw, err |-> c.err]
     ELSE IF d.err # Nil THEN [row |-> copied, err |-> d.err]
     ELSE [row |-> [copied EXCEPT !.Data = MapDelete(d.val, ReservedKeys)], err |-> Nil]

\* a map[string]string as json.Marshal writes it
StringMapJSON(m) == JObj([k \in DOMAIN m |-> JStr(m[k])])

\* RowMarshalJSON with the entries of Data copied into c last
RowMarshalJSON_DataLast(rw) ==
  LET c1 == IF rw.RowID # "" THEN MapPut(EmptyMap, "DT_RowId", JStr(rw.RowID)) ELSE EmptyMap
      c2 == IF rw.RowClass # "" THEN MapPut(c1, "DT_RowClass", JStr(rw.RowClass)) ELSE c1
      c3 == IF Cardinality(DOMAIN rw.RowData) > 0
            THEN MapPut(c2, "DT_RowData", StringMapJSON(rw.RowData)) ELSE c2
      c4 == IF Cardinality(DOMAIN rw.RowAttr) > 0
            THEN MapPut(c3, "DT_RowAttr", StringMapJSON(rw.RowAttr)) ELSE c3
  IN JObj([k \in DOMAIN c4 \cup DOMAIN rw.Data |->
             IF k \in DOMAIN rw.Data THEN JStr(rw.Data[k]) ELSE c4[k]])

\* (r Row) MarshalJSON(): the JSON value of the map c
RowMarshalJSON(rw) ==
  LET c0 == [k \in DOMAIN rw.Data |-> JStr(rw.Data[k])]
      c1 == IF rw.RowID # "" THEN MapPut(c0, "DT_RowId", JStr(rw.RowID)) ELSE c0
      c2 == IF rw.RowClass # "" THEN MapPut(c1, "DT_RowClass", JStr(rw.RowClass)) ELSE c1
      c3 == IF Cardinality(DOMAIN rw.RowData) > 0
            THEN MapPut(c2, "DT_RowData", StringMapJSON(rw.RowData)) ELSE c2
      c4 == IF Cardinality(DOMAIN rw.RowAttr) > 0
            THEN MapPut(c3, "DT_RowAttr", StringMapJSON(rw.RowAttr)) ELSE c3
  IN JObj(c4)

(***************************************************************************)
(* The document codec of Request: json.Marshal and json.Unmarshal by the   *)
(* struct tags.                                                            *)
(***************************************************************************)
SearchJSON(s) == JObj([k \in {"value", "regex"} |->
                         IF k = "value" THEN JStr(s.Value) ELSE JBool(s.Regex)])

OrderJSON(o) == JObj([k \in {"column", "dir"} |->
                        IF k = "column" THEN JNum(o.Column) ELSE JStr(o.Dir)])

\* ColumnJSON with the tags of the two flags exchanged
ColumnJSON_FlagsSwapped(c) ==
  JObj([k \in {"data", "name", "searchable", "orderable", "search"} |->
          IF k = "data" THEN JStr(c.Data)
          ELSE IF k = "name" THEN JStr(c.Name)
          ELSE IF k = "searchable" THEN JBool(c.Orderable)
          ELSE IF k = "orderable" THEN JBool(c.Searchable)
          ELSE SearchJSON(c.Search)])

ColumnJSON(c) ==
  JObj([k \in {"data", "name", "searchable", "orderable", "search"} |->
          IF k = "data" THEN JStr(c.Data)
          ELSE IF k = "name" THEN JStr(c.Name)
          ELSE IF k = "searchable" THEN JBool(c.Searchable)
          ELSE IF k = "orderable" THEN JBool(c.Orderable)
          ELSE SearchJSON(c.Search)])

RequestJSON(rq) ==
  JObj([k \in {"draw", "start", "length", "search", "order", "columns"} |->
          IF k = "draw" THEN JNum(rq.Draw)
          ELSE IF k = "start" THEN JNum(rq.Start)
          ELSE IF k = "length" THEN JNum(rq.Length)
          ELSE IF k = "search" THEN SearchJSON(rq.Search)
          ELSE IF k = "order" THEN JArr([i \in 1..Len(rq.Order) |-> OrderJSON(rq.Order[i])])
          ELSE JArr([i \in 1..Len(rq.Columns) |-> ColumnJSON(rq.Columns[i])])])

UnmarshalSearch(j, cur) ==
  IF j.t = "null" THEN [val |-> cur, err |-> Nil]
  ELSE IF j.t # "obj" THEN [val |-> cur, err |-> ErrType]
  ELSE LET v == UnmarshalString(Member(j.o, "value"), cur.Value)
           x == UnmarshalBool(Member(j.o, "regex"), cur.Regex)
       IN [val |-> [Value |-> v.val, Regex |-> x.val], err |-> FirstErr(<<v.err, x.err>>)]

UnmarshalOrder(j, cur) ==
  IF j.t = "null" THEN [val |-> cur, err |-> Nil]
  ELSE IF j.t # "obj" THEN [val |-> cur, err |-> ErrType]
  ELSE LET c == UnmarshalInt(Member(j.o, "column"), cur.Column)
           d == UnmarshalString(Member(j.o, "dir"), cur.Dir)
       IN [val |-> [Column |-> c.val, Dir |-> d.val], err |-> FirstErr(<<c.err, d.err>>)]

UnmarshalColumn(j, cur) ==
  IF j.t = "null" THEN [val |-> cur, err |-> Nil]
  ELSE IF j.t # "obj" THEN [val |-> cur, err |-> ErrType]
  ELSE LET d == UnmarshalString(Member(j.o, "data"), cur.Data)
           n == UnmarshalString(Member(j.o, "name"), cur.Name)
           s == UnmarshalBool(Member(j.o, "searchable"), cur.Searchable)
           o == UnmarshalBool(Member(j.o, "orderable"), cur.Orderable)
           x == UnmarshalSearch(Member(j.o, "search"), cur.Search)
       IN [val |-> [Data |-> d.val, Name |-> n.val, Searchable |-> s.val,
                    Orderable |-> o.val, Search |-> x.val],
           err |-> FirstErr(<<d.err, n.err, s.err, o.err, x.err>>)]

UnmarshalOrders(j) ==
  IF j.t = "null" THEN [val |-> <<>>, err |-> Nil]
  ELSE IF j.t # "arr" THEN [val |-> <<>>, err |-> ErrType]
  ELSE LET e == [i \in 1..Len(j.a) |-> UnmarshalOrder(j.a[i], ZeroOrder)]
       IN [val |-> [i \in 1..Len(j.a) |-> e[i].val],
           err |-> FirstErr([i \in 1..Len(j.a) |-> e[i].err])]

UnmarshalColumns(j) ==
  IF j.t = "null" THEN [val |-> <<>>, err |-> Nil]
  ELSE IF j.t # "arr" THEN [val |-> <<>>, err |-> ErrType]
  ELSE LET e == [i \in 1..Len(j.a) |-> UnmarshalColumn(j.a[i], ZeroColumn)]
       IN [val |-> [i \in 1..Len(j.a) |-> e[i].val],
           err |-> FirstErr([i \in 1..Len(j.a) |-> e[i].err])]

\* json.Unmarshal(out, &r), r a zero Request
UnmarshalRequest(j) ==
  IF j.t = "null" THEN [val |-> ZeroRequest, err |-> Nil]
  ELSE IF j.t # "obj" THEN [val |-> ZeroRequest, err |-> ErrType]
  ELSE LET d == UnmarshalInt(Member(j.o, "draw"), 0)
           s == UnmarshalInt(Member(j.o, "start"), 0)
           l == UnmarshalInt(Member(j.o, "length"), 0)
           x == UnmarshalSearch(Member(j.o, "search"), ZeroSearch)
           o == UnmarshalOrders(Member(j.o, "order"))
           c == UnmarshalColumns(Member(j.o, "columns"))
       IN [val |-> [Draw |-> d.val, Start |-> s.val, Length |-> l.val,
                    Search |-> x.val, Order |-> o.val, Columns |-> c.val],
           err |-> FirstErr(<<d.err, s.err, l.err, x.err, o.err, c.err>>)]

(***************************************************************************)
(* Package mongo: the handler of a collection and the functions it calls.  *)
(* A bson.M is a function on its keys, a Query the record of what Find,    *)
(* Sort, Skip and Limit were given.  The collection and its queries are    *)
(* the caller's: Count and All answer what the record of the collection    *)
(* says, a number or records, or an error.                                 *)
(***************************************************************************)
StatusOK == 200
StatusBadRequest == 400

\* the characters regexp.QuoteMeta escapes
MetaChars == {"\\", ".", "+", "*", "?", "(", ")", "|", "[", "]", "{", "}", "^", "$"}

\* regexp.QuoteMeta: a backslash before every metacharacter
RECURSIVE QuoteMeta(_)
QuoteMeta(s) ==
  IF s = "" THEN ""
  ELSE LET c == Ch(s, 1)
       IN (IF c \in MetaChars THEN "\\" \o c ELSE c) \o QuoteMeta(SubSeq(s, 2, Len(s)))

\* bson.RegEx{Pattern: p, Options: "i"}
RegEx(p) == [Pattern |-> p, Options |-> "i"]

\* bson.M{k: v}
M(k, v) == [x \in {k} |-> v]

\* the pattern of a Search
SearchPattern(s) == IF s.Regex THEN s.Value ELSE QuoteMeta(s.Value)

\* CreateFilter with an entry for every column in the column searches
CreateFilter_EveryColumn(rq) ==
  LET n == Len(rq.Columns)
      global == [i \in 1..n |-> M(rq.Columns[i].Data, RegEx(SearchPattern(rq.Search)))]
      column == [i \in 1..n |-> M(rq.Columns[i].Data, RegEx(SearchPattern(rq.Columns[i].Search)))]
      q == M("$or", global)
  IN IF Len(column) > 0 THEN M("$and", <<q, M("$and", column)>>) ELSE q

\* CreateFilter(r)
CreateFilter(rq) ==
  LET n == Len(rq.Columns)
      global == [i \in 1..n |-> M(rq.Columns[i].Data, RegEx(SearchPattern(rq.Search)))]
      searched == SelectSeq([i \in 1..n |-> i], LAMBDA i : rq.Columns[i].Search.Value # "")
      column == [j \in 1..Len(searched) |->
                   M(rq.Columns[searched[j]].Data,
                     RegEx(SearchPattern(rq.Columns[searched[j]].Search)))]
      q == M("$or", global)
  IN IF Len(column) > 0 THEN M("$and", <<q, M("$and", column)>>) ELSE q

\* Collection.Find(f): a Query with no sort and no range yet
Find(f) == [Filter |-> f, SortValue |-> <<>>, SkipValue |-> 0, LimitValue |-> 0]

\* r.Columns[o.Column] of SortQuery panics: an index out of range
SortQueryPanics(rq) ==
  \E i \in 1..Len(rq.Order) : rq.Order[i].Column \notin 0..(Len(rq.Columns) - 1)

\* SortQuery with the prefix on every direction but descending
SortQuery_PrefixAscending(in, rq) ==
  [in EXCEPT !.SortValue =
     [i \in 1..Len(rq.Order) |->
        (IF rq.Order[i].Dir = OrderDescending THEN "" ELSE "-")
          \o rq.Columns[rq.Order[i].Column + 1].Data]]

\* SortQuery(in, r), when it does not panic
SortQuery(in, rq) ==
  [in EXCEPT !.SortValue =
     [i \in 1..Len(rq.Order) |->
        (IF rq.Order[i].Dir = OrderDescending THEN "-" ELSE "")
          \o rq.Columns[rq.Order[i].Column + 1].Data]]

\* RangeQuery(in, r)
RangeQuery(in, rq) == [in EXCEPT !.SkipValue = rq.Start, !.LimitValue = rq.Length]

\* ResponseData(q) on the collection c: [data, err]
ResponseData(c) ==
  IF c.allErr # Nil THEN [data |-> <<>>, err |-> c.allErr]
  ELSE [data |-> [i \in 1..Len(c.Result) |-> [ZeroRow EXCEPT !.Data = c.Result[i]]],
        err |-> Nil]

\* the last error of a sequence of errors as Response.Error, "" when none
LastError(es) ==
  LET S == {i \in 1..Len(es) : es[i] # Nil}
  IN IF S = {} THEN "" ELSE es[CHOOSE i \in S : \A j \in S : j <= i]

\* json.Encoder.Encode(&dtResponse)
ResponseJSON(resp) ==
  JObj([k \in {"draw", "recordsTotal", "recordsFiltered", "data"}
              \cup (IF resp.Error # "" THEN {"error"} ELSE {}) |->
          IF k = "draw" THEN JNum(resp.Draw)
          ELSE IF k = "recordsTotal" THEN JNum(resp.RecordsTotal)
          ELSE IF k = "recordsFiltered" THEN JNum(resp.RecordsFiltered)
          ELSE IF k = "data"
          THEN JArr([i \in 1..Len(resp.Data) |-> RowMarshalJSON(resp.Data[i])])
          ELSE JStr(resp.Error)])

\* the Response ServeHTTP builds for the Request rq on the collection c,
\* when SortQuery does not panic
Serve(rq, c) ==
  LET d == ResponseData(c)
  IN [Draw |-> rq.Draw,
      RecordsTotal |-> c.count,
      RecordsFiltered |-> c.filtered,
      Data |-> d.data,
      Error |-> LastError(<<c.filteredErr, c.err, d.err>>)]

(***************************************************************************)
(* The inputs of the model: url.Values of at most MaxKeys keys.  Each key  *)
(* is offered the value lists that take its field through every branch of  *)
(* the code: a number and a text for an integer, "true" and another text   *)
(* for a flag, "asc", "desc" and another text for a direction; some lists  *)
(* are empty and some hold a second value.                                 *)
(***************************************************************************)
\* the keys K, each offered the value lists of the sequence V
Offer(K, V) == [k \in K |-> V]

\* the keys family[i][field] for the indices 0..MaxIdx, in decimal
Indexed(family, field, V) ==
  Offer({family \o "[" \o Itoa(i) \o "][" \o field \o "]" : i \in 0..MaxIdx}, V)

FormOffer ==
  Offer({"draw"}, <<<<"2">>, <<"x">>>>)
    @@ Offer({"start"}, <<<<"1", "x">>>>)
    @@ Offer({"length"}, <<<<"-1">>, <<>>>>)
    @@ Offer({"search[value]"}, <<<<"t">>>>)
    @@ Offer({"search[regex]"}, <<<<"true">>, <<"TRUE">>>>)
    @@ Indexed("order", "column", <<<<"1">>, <<"x">>>>)
    @@ Indexed("order", "dir", <<<<"asc">>, <<"desc">>, <<"x">>>>)
    @@ Indexed("columns", "data", <<<<"a">>>>)
    @@ Indexed("columns", "name", <<<<"n">>>>)
    @@ Indexed("columns", "searchable", <<<<"true">>, <<"false">>>>)
    @@ Indexed("columns", "orderable", <<<<"true">>, <<"">>>>)
    @@ Indexed("columns", "search][value", <<<<"^bla$">>>>)
    @@ Indexed("columns", "search][regex", <<<<"true">>>>)
    \* a second spelling of index 0, and text after the field
    @@ Offer({"columns[00][data]", "columns[0][data]x"}, <<<<"b">>>>)
    @@ Offer({"columns[00][searchable]"}, <<<<"false">>>>)
    @@ Offer({"order[00][column]"}, <<<<"0">>>>)
    \* keys of no family
    @@ Offer({"_"}, <<<<"1495876460828">>>>)
    @@ Offer({"column_x"}, <<<<"1">>>>)
    \* keys of a family that lack fields, or have no number for index
    @@ Offer({"search", "order[0]", "columns[0]", "columns[0][search]",
              "columns[abc][data]", "order[abc][column]"}, <<<<"1">>>>)

FormKeys == DOMAIN FormOffer

\* the sets of at most n form keys
RECURSIVE KeySets(_)
KeySets(n) ==
  IF n = 0 THEN {{}}
  ELSE LET S == KeySets(n - 1) IN S \cup {K \cup {k} : K \in S, k \in FormKeys}

\* the longest list of offers
Widest ==
  LET W == {Len(FormOffer[k]) : k \in FormKeys}
  IN CHOOSE n \in W : \A m \in W : m <= n

\* uv is a url.Values of at most MaxKeys keys, each with one of its offers
IsFormInput(uv) ==
  \E K \in KeySets(MaxKeys) :
    \E c \in [K -> 1..Widest] :
      /\ \A k \in K : c[k] <= Len(FormOffer[k])
      /\ uv = [k \in K |-> FormOffer[k][c[k]]]

\* the Rows that are marshalled: Data may hold a reserved key
DataKeys == {"name", "DT_RowId", "DT_RowData"}

DataMaps == UNION {[K -> {"Foo", "16"}] : K \in SUBSET DataKeys}

MetaMaps == {EmptyMap, [k \in {"k"} |-> "v"]}

Rows ==
  [Data : DataMaps, RowID : {"", "row_1"}, RowClass : {"", "odd"},
   RowData : MetaMaps, RowAttr : MetaMaps]

\* the JSON values that are unmarshalled into a Row
ArrayDocs ==
  {JArr(a) : a \in UNION {[1..n -> {JStr("Airi"), JStr("Satou")}] : n \in 0..MaxArr}}
    \cup {JArr(<<JNum(1)>>), JArr(<<JStr("Airi"), JNull>>)}

MemberValues == {JStr("x"), JNum(5), JNull, StringMapJSON([k \in {"k"} |-> "v"])}

ObjectDocs ==
  {JObj(o) : o \in UNION {[K -> MemberValues] : K \in SUBSET ({"first_name"} \cup ReservedKeys)}}

RowDocs == ArrayDocs \cup ObjectDocs \cup {JNull, JStr("x")}

\* what the destination Row holds before the call
PriorRows ==
  {ZeroRow,
   [Data |-> [k \in {"old"} |-> "v"], RowID |-> "old_id", RowClass |-> "old",
    RowData |-> [k \in {"o"} |-> "v"], RowAttr |-> EmptyMap]}

\* the records a query returns
ResultSets ==
  {<<>>,
   <<[k \in {"foo", "bar"} |-> IF k = "foo" THEN "1" ELSE "2"],
     [k \in {"foo", "bar"} |-> IF k = "foo" THEN "3" ELSE "4"]>>}

ErrDB == "EOF"

\* the collections of a handler: one that answers, with each of the result
\* sets, and one whose calls all fail
Collections ==
  {[count |-> 100, err |-> Nil, filtered |-> Len(R), filteredErr |-> Nil,
    Result |-> R, allErr |-> Nil] : R \in ResultSets}
    \cup {[count |-> 0, err |-> ErrDB, filtered |-> 0, filteredErr |-> ErrDB,
           Result |-> <<>>, allErr |-> ErrDB]}

\* the sequences over S of at most n elements
SeqsUpTo(S, n) == UNION {[1..m -> S] : m \in 0..n}

\* the Requests CreateFilter is given: a global search, a regular expression
\* or not, and columns with and without a search of their own
FilterSearches ==
  {ZeroSearch, [Value |-> "^bla$", Regex |-> TRUE], [Value |-> "a.b", Regex |-> FALSE]}

FilterColumns ==
  {[ZeroColumn EXCEPT !.Data = d, !.Search = s] : d \in {"foo", "bar"}, s \in FilterSearches}

FilterRequests ==
  {[ZeroRequest EXCEPT !.Search = [Value |-> "^t.$", Regex |-> b], !.Columns = cs] :
     b \in BOOLEAN, cs \in SeqsUpTo(FilterColumns, MaxIdx + 1)}

\* the Requests SortQuery and RangeQuery are given: Order[i].Column may be
\* past the end of Columns
SortOrders ==
  [Column : 0..(MaxIdx + 1), Dir : {OrderAscending, OrderDescending, ""}]

SortColumns == {[ZeroColumn EXCEPT !.Data = d] : d \in {"foo", "bar"}}

SortRequests ==
  {[ZeroRequest EXCEPT !.Start = 5, !.Length = l, !.Order = os, !.Columns = cs] :
     l \in {10, -1},
     os \in SeqsUpTo(SortOrders, MaxIdx + 1),
     cs \in SeqsUpTo(SortColumns, MaxIdx + 1)}

(***************************************************************************)
(* The state machine.  pc is the place of the one caller: it calls         *)
(* ParseURLValues (and may then send the Request through the document      *)
(* codec), or marshals a Row and unmarshals the result, or unmarshals a    *)
(* JSON value into a Row; or it is the server, which calls ServeHTTP on    *)
(* the decoded form; or it calls CreateFilter, or SortQuery and RangeQuery, *)
(* on a Request.                                                           *)
(***************************************************************************)
NoInput == [k \in {} |-> <<>>]

\* no collection, no query yet, nothing written
NoCollection ==
  [count |-> 0, err |-> Nil, filtered |-> 0, filteredErr |-> Nil,
   Result |-> <<>>, allErr |-> Nil]
NoQuery == Find(EmptyMap)
NoResponse == [status |-> 0, body |-> JNull]

Init ==
  /\ pc = "idle"
  /\ u = NoInput
  /\ ord = <<>>
  /\ r = ZeroRequest
  /\ err = Nil
  /\ doc = JNull
  /\ src = ZeroRow
  /\ prior = ZeroRow
  /\ row = ZeroRow
  /\ req = ZeroRequest
  /\ dtRequest = ZeroRequest
  /\ coll = NoCollection
  /\ query = NoQuery
  /\ writer = NoResponse

\* a call of ParseURLValues: the named results are zero
CallParseURLValues ==
  /\ pc = "idle"
  /\ IsFormInput(u')
  /\ pc' = "range"
  /\ ord' = <<>>
  /\ r' = ZeroRequest
  /\ err' = Nil
  /\ UNCHANGED <<doc, src, prior, row, req, web>>

\* one iteration of the range loop, on a key not yet visited; a non-nil err
\* returns
RangeStep ==
  /\ pc = "range"
  /\ \E k \in DOMAIN u \ {ord[i] : i \in 1..Len(ord)} :
       LET s == LoopBody(r, k, u[k])
       IN /\ r' = s.r
          /\ err' = s.err
          /\ ord' = Append(ord, k)
          /\ pc' = IF s.err # Nil THEN "returned" ELSE "range"
  /\ UNCHANGED <<u, doc, src, prior, row, req, web>>

\* the loop is over: return
RangeDone ==
  /\ pc = "range"
  /\ DOMAIN u = {ord[i] : i \in 1..Len(ord)}
  /\ pc' = "returned"
  /\ UNCHANGED <<u, ord, r, err, doc, src, prior, row, req, web>>

\* json.Marshal of the decoded Request; the call of ParseURLValues is over,
\* and its argument and loop are gone
MarshalRequest ==
  /\ pc = "returned"
  /\ err = Nil
  /\ doc' = RequestJSON(r)
  /\ pc' = "reqMarshalled"
  /\ u' = NoInput
  /\ ord' = <<>>
  /\ UNCHANGED <<r, err, src, prior, row, req, web>>

\* json.Unmarshal of that document into a zero Request
UnmarshalMarshalledRequest ==
  /\ pc = "reqMarshalled"
  /\ LET d == UnmarshalRequest(doc)
     IN req' = d.val /\ err' = d.err
  /\ pc' = "reqRoundTrip"
  /\ UNCHANGED <<u, ord, r, doc, src, prior, row, web>>

\* Row.MarshalJSON of a Row
MarshalRow ==
  /\ pc = "idle"
  /\ \E rw \in Rows : src' = rw /\ doc' = RowMarshalJSON(rw)
  /\ pc' = "rowMarshalled"
  /\ UNCHANGED <<u, ord, r, err, prior, row, req, web>>

\* Row.UnmarshalJSON of that document into a zero Row
UnmarshalMarshalledRow ==
  /\ pc = "rowMarshalled"
  /\ LET d == RowUnmarshalJSON(ZeroRow, doc)
     IN row' = d.row /\ err' = d.err
  /\ prior' = ZeroRow
  /\ pc' = "rowRoundTrip"
  /\ UNCHANGED <<u, ord, r, doc, src, req, web>>

\* Row.UnmarshalJSON of a JSON value into a Row that holds p
UnmarshalRow ==
  /\ pc = "idle"
  /\ \E j \in RowDocs, p \in PriorRows :
       LET d == RowUnmarshalJSON(p, j)
       IN /\ doc' = j
          /\ prior' = p
          /\ row' = d.row
          /\ err' = d.err
  /\ pc' = "rowDecoded"
  /\ UNCHANGED <<u, ord, r, src, req, web>>

\* CollectionHandler.ServeHTTP from the return of ParseURLValues(r.Form) on:
\* StatusBadRequest for an error; else the filter, the two counts, the sort
\* and the range, the data and the encoded Response.  A panic of SortQuery
\* ends the handler with nothing written.
ServeHTTP ==
  /\ pc = "returned"
  /\ dtRequest' = r
  /\ IF err # Nil
     THEN /\ writer' = [status |-> StatusBadRequest, body |-> JNull]
          /\ pc' = "served"
          /\ UNCHANGED <<coll, query>>
     ELSE \E c \in Collections :
            /\ coll' = c
            /\ IF SortQueryPanics(r)
               THEN /\ query' = Find(CreateFilter(r))
                    /\ writer' = NoResponse
                    /\ pc' = "panicked"
               ELSE /\ query' = RangeQuery(SortQuery(Find(CreateFilter(r)), r), r)
                    /\ writer' = [status |-> StatusOK, body |-> ResponseJSON(Serve(r, c))]
                    /\ pc' = "served"
  /\ u' = NoInput
  /\ ord' = <<>>
  /\ UNCHANGED <<r, err, doc, src, prior, row, req>>

\* CreateFilter of a Request, the filter handed to Find
CallCreateFilter ==
  /\ pc = "idle"
  /\ \E rq \in FilterRequests :
       /\ dtRequest' = rq
       /\ query' = Find(CreateFilter(rq))
  /\ pc' = "filtered"
  /\ UNCHANGED <<u, ord, r, err, doc, src, prior, row, req, coll, writer>>

\* SortQuery and then RangeQuery of a Request on a fresh Query, as ServeHTTP
\* calls them; SortQuery may panic
CallSortRangeQuery ==
  /\ pc = "idle"
  /\ \E rq \in SortRequests :
       /\ dtRequest' = rq
       /\ IF SortQueryPanics(rq)
          THEN query' = NoQuery /\ pc' = "sortPanicked"
          ELSE query' = RangeQuery(SortQuery(NoQuery, rq), rq) /\ pc' = "ranged"
  /\ UNCHANGED <<u, ord, r, err, doc, src, prior, row, req, coll, writer>>

Next ==
  \/ CallParseURLValues
  \/ RangeStep
  \/ RangeDone
  \/ MarshalRequest
  \/ UnmarshalMarshalledRequest
  \/ MarshalRow
  \/ UnmarshalMarshalledRow
  \/ UnmarshalRow
  \/ ServeHTTP
  \/ CallCreateFilter
  \/ CallSortRangeQuery

Spec == Init /\ [][Next]_vars

(***************************************************************************)
(* The claims.                                                             *)
(***************************************************************************)
\* the first value of the key k of uv is v
HasValue(uv, k, v) == k \in DOMAIN uv /\ Len(uv[k]) >= 1 /\ uv[k][1] = v

\* Columns[i] and Order[i] of a Request, the zero value past the end
ColumnAt(rq, i) == IF i + 1 <= Len(rq.Columns) THEN rq.Columns[i + 1] ELSE ZeroColumn
OrderAt(rq, i) == IF i + 1 <= Len(rq.Order) THEN rq.Order[i + 1] ELSE ZeroOrder

\* the metadata of a Row that MarshalJSON writes, by reserved key
Metadata(rw) ==
  [k \in {x \in ReservedKeys :
            \/ x = "DT_RowId" /\ rw.RowID # ""
            \/ x = "DT_RowClass" /\ rw.RowClass # ""
            \/ x = "DT_RowData" /\ DOMAIN rw.RowData # {}
            \/ x = "DT_RowAttr" /\ DOMAIN rw.RowAttr # {}} |->
     IF k = "DT_RowId" THEN JStr(rw.RowID)
     ELSE IF k = "DT_RowClass" THEN JStr(rw.RowClass)
     ELSE IF k = "DT_RowData" THEN StringMapJSON(rw.RowData)
     ELSE StringMapJSON(rw.RowAttr)]

\* C1 (as claimed): Row round trip.  Row.UnmarshalJSON applied to the output
\* of Row.MarshalJSON(r) succeeds and yields a Row equal to r in Data and in
\* the four metadata fields, for every Row r.
C1_RowRoundTrip ==
  pc = "rowRoundTrip" => err = Nil /\ row = src

\* C2 (as claimed): the form decode does not depend on the order in which
\* the keys are visited.  Under every order ParseURLValues fails, or under
\* every order it succeeds with the same Request.
C2_OrderIndependent ==
  pc = "returned" =>
    \A o \in Orders(DOMAIN u) :
      LET res == ParseURLValues(u, o)
      IN /\ (res.err # Nil) <=> (err # Nil)
         /\ err = Nil => res.r = r

\* C3 (as claimed): no partial result.  When ParseURLValues returns a non-nil
\* error the Request it returns is the zero Request.
C3_NoPartialResult ==
  pc = "returned" /\ err # Nil => r = ZeroRequest

\* C4: Request JSON round trip.  Decoding the JSON encoding of a Request
\* succeeds and yields a Request equal to it.
C4_RequestRoundTrip ==
  pc = "reqRoundTrip" => err = Nil /\ req = r

\* C4's case: a Request with an Order and a Column that are not zero went
\* through the codec.
C4_Witness ==
  /\ pc = "reqRoundTrip"
  /\ Len(r.Order) >= 1
  /\ Len(r.Columns) >= 2
  /\ r.Order[1].Dir = OrderDescending
  /\ r.Columns[2].Searchable

\* C5 (as claimed): object-shaped row decode.  For every JSON object whose
\* non-reserved values are strings (and whose reserved members, when present,
\* have the types of their fields) Row.UnmarshalJSON succeeds, sets the four
\* metadata fields from the reserved keys (empty when absent) and Data to
\* exactly the other key/value pairs.
C5_ObjectRowDecode ==
  (/\ pc = "rowDecoded"
   /\ doc.t = "obj"
   /\ \A k \in DOMAIN doc.o \ ReservedKeys : doc.o[k].t = "str"
   /\ \A k \in DOMAIN doc.o \cap {"DT_RowId", "DT_RowClass"} : doc.o[k].t = "str"
   /\ \A k \in DOMAIN doc.o \cap {"DT_RowData", "DT_RowAttr"} :
        doc.o[k].t = "obj" /\ \A x \in DOMAIN doc.o[k].o : doc.o[k].o[x].t = "str")
  => /\ err = Nil
     /\ row.RowID = (IF "DT_RowId" \in DOMAIN doc.o THEN doc.o["DT_RowId"].s ELSE "")
     /\ row.RowClass = (IF "DT_RowClass" \in DOMAIN doc.o THEN doc.o["DT_RowClass"].s ELSE "")
     /\ row.RowData = (IF "DT_RowData" \in DOMAIN doc.o
                       THEN [x \in DOMAIN doc.o["DT_RowData"].o |-> doc.o["DT_RowData"].o[x].s]
                       ELSE EmptyMap)
     /\ row.RowAttr = (IF "DT_RowAttr" \in DOMAIN doc.o
                       THEN [x \in DOMAIN doc.o["DT_RowAttr"].o |-> doc.o["DT_RowAttr"].o[x].s]
                       ELSE EmptyMap)
     /\ DOMAIN row.Data = DOMAIN doc.o \ ReservedKeys
     /\ \A k \in DOMAIN row.Data : row.Data[k] = doc.o[k].s

\* C6: array-shaped row decode.  Decoding a JSON array of n strings into a
\* fresh Row yields Data with exactly the keys "0".."n-1", Data[i] the i-th
\* element, and empty RowID, RowClass, RowData and RowAttr.
C6_ArrayRowDecode ==
  (/\ pc = "rowDecoded"
   /\ prior = ZeroRow
   /\ doc.t = "arr"
   /\ \A i \in 1..Len(doc.a) : doc.a[i].t = "str")
  => /\ err = Nil
     /\ DOMAIN row.Data = {Itoa(i) : i \in 0..(Len(doc.a) - 1)}
     /\ \A i \in 0..(Len(doc.a) - 1) : row.Data[Itoa(i)] = doc.a[i + 1].s
     /\ row.RowID = ""
     /\ row.RowClass = ""
     /\ row.RowData = EmptyMap
     /\ row.RowAttr = EmptyMap

\* C6's case: an array of two different strings was decoded into a fresh Row.
C6_Witness ==
  /\ pc = "rowDecoded"
  /\ prior = ZeroRow
  /\ doc = JArr(<<JStr("Airi"), JStr("Satou")>>)
  /\ row.Data = [k \in {"0", "1"} |-> IF k = "0" THEN "Airi" ELSE "Satou"]

FlagKeys(i, field) ==
  {"columns[" \o sp \o "][" \o field \o "]" :
     sp \in {Itoa(i)} \cup (IF i = 0 THEN {"00"} ELSE {})}

\* one of the keys K is present in uv with the first value "true"
SomeTrue(uv, K) == \E k \in K : HasValue(uv, k, "true")

\* C8 (as claimed): boolean coercion.  After a decode each flag is true if
\* and only if its key is present with the value "true"; an absent key and
\* every other value give false, and no value of a flag key makes the decode
\* fail.
C8_BooleanCoercion ==
  pc = "returned" =>
    /\ err = Nil =>
         /\ r.Search.Regex <=> HasValue(u, "search[regex]", "true")
         /\ \A i \in 0..MaxIdx :
              /\ ColumnAt(r, i).Searchable <=> SomeTrue(u, FlagKeys(i, "searchable"))
              /\ ColumnAt(r, i).Orderable <=> SomeTrue(u, FlagKeys(i, "orderable"))
              /\ ColumnAt(r, i).Search.Regex <=> SomeTrue(u, FlagKeys(i, "search][regex"))
    /\ (DOMAIN u \subseteq
          {"search[regex]"} \cup
            UNION {FlagKeys(i, f) : i \in 0..MaxIdx,
                                   f \in {"searchable", "orderable", "search][regex"}})
       => err = Nil

\* C9 (as claimed): direction coercion.  order[i][dir] with the value "asc"
\* gives Order[i].Dir ascending, "desc" descending, and any other value makes
\* the decode succeed with Order[i].Dir the ascending direction.
C9_DirectionCoercion ==
  pc = "returned" =>
    \A i \in 0..MaxIdx :
      LET k == "order[" \o Itoa(i) \o "][dir]"
      IN k \in DOMAIN u /\ Len(u[k]) >= 1 =>
           /\ DOMAIN u = {k} => err = Nil
           /\ err = Nil =>
                OrderAt(r, i).Dir =
                  IF u[k][1] = "desc" THEN OrderDescending ELSE OrderAscending

\* a key that is not draw, start or length and begins with no family prefix
Unrecognised(k) ==
  /\ k \notin {"draw", "start", "length"}
  /\ ~HasPrefix(k, "columns")
  /\ ~HasPrefix(k, "order")
  /\ ~HasPrefix(k, "search")

\* C10 (as claimed): unrecognised keys are ignored.  What ParseURLValues
\* returns on u is what it returns on u without an unrecognised key k, the
\* other keys visited in the same order.
C10_UnrecognisedIgnored ==
  pc = "returned" =>
    \A k \in DOMAIN u :
      Unrecognised(k) =>
        LET res == ParseURLValues([x \in DOMAIN u \ {k} |-> u[x]], Without(ord, k))
        IN res.r = r /\ res.err = err

\* the number of "[" of the key k
Brackets(k) == Cardinality({i \in 1..Len(k) : Ch(k, i) = "["})

\* k ends with the text e
HasSuffix(k, e) == Len(k) >= Len(e) /\ SubSeq(k, Len(k) - Len(e) + 1, Len(k)) = e

\* k begins with a family prefix and has fewer bracket segments than the
\* family asks for: one for search, two for order and columns, three for the
\* search field of a column
LacksFields(k) ==
  \/ HasPrefix(k, "search") /\ Brackets(k) < 1
  \/ HasPrefix(k, "order") /\ Brackets(k) < 2
  \/ HasPrefix(k, "columns") /\ Brackets(k) < 2
  \/ HasPrefix(k, "columns") /\ Brackets(k) = 2 /\ HasSuffix(k, "][search]")

\* the keys the range loop has visited
Visited == {ord[i] : i \in 1..Len(ord)}

\* C11: insufficient bracket depth.  A key (with a value) that begins with a
\* family prefix but lacks the bracket segments of the family makes
\* ParseURLValues fail: the call returns an error, and when the loop has
\* reached that key the error is ErrNotEnoughFields.
C11_NotEnoughFields ==
  pc = "returned" =>
    \A k \in DOMAIN u :
      LacksFields(k) /\ Len(u[k]) >= 1 =>
        /\ err # Nil
        /\ k \in Visited => err = ErrNotEnoughFields /\ ord[Len(ord)] = k

\* C11's case: the search field of a column without sub-field, visited after
\* a key that decoded, made the call return ErrNotEnoughFields.
C11_Witness ==
  /\ pc = "returned"
  /\ Len(ord) = 2
  /\ ord[2] = "columns[0][search]"
  /\ err = ErrNotEnoughFields

\* the text between the first "[" of k and the "]" that follows it
IndexText(k) ==
  LET S == {i \in 1..Len(k) : Ch(k, i) = "["}
      b == CHOOSE i \in S : \A j \in S : i <= j
      c == FirstClose(k, b)
  IN IF S = {} \/ c = 0 THEN "" ELSE SubSeq(k, b + 1, c - 1)

\* k is columns[<i>][<field>] or order[<i>][<field>] with an <i> that is no
\* base-10 integer
NonNumericIndex(k) ==
  /\ HasPrefix(k, "columns[") \/ HasPrefix(k, "order[")
  /\ Brackets(k) >= 2
  /\ Atoi(IndexText(k)).err # Nil

\* C12 (as claimed): non-numeric index.  A key columns[<i>][<field>] or
\* order[<i>][<field>] whose <i> is no base-10 integer makes ParseURLValues
\* fail, and when the loop has reached that key the error is the integer-parse
\* error and not ErrNotEnoughFields.
C12_NonNumericIndex ==
  pc = "returned" =>
    \A k \in DOMAIN u :
      NonNumericIndex(k) /\ Len(u[k]) >= 1 =>
        /\ err # Nil
        /\ k \in Visited => err # ErrNotEnoughFields

\* k is order[<i>][column] with a base-10 index <i>
IsOrderColumnKey(k) ==
  HasPrefix(k, "order[") /\ HasSuffix(k, "][column]") /\ Brackets(k) = 2
    /\ AllDigits(IndexText(k))

\* k is the key of an integer field
IsIntegerKey(k) == k \in {"draw", "start", "length"} \/ IsOrderColumnKey(k)

\* the field of the Request rq that the integer key k names
IntegerField(rq, k) ==
  IF k = "draw" THEN rq.Draw
  ELSE IF k = "start" THEN rq.Start
  ELSE IF k = "length" THEN rq.Length
  ELSE OrderAt(rq, Atoi(IndexText(k)).val).Column

\* C13 (as claimed): non-numeric integer value.  If the first value of draw,
\* start, length or order[i][column] is no base-10 integer, ParseURLValues
\* returns a non-nil error, the integer-parse error when the loop has reached
\* that key; after a decode where all of them are base-10 integers each of
\* these fields of the Request equals the parsed number.
C13_IntegerValues ==
  pc = "returned" =>
    \A k \in DOMAIN u :
      IsIntegerKey(k) /\ Len(u[k]) >= 1 =>
        /\ Atoi(u[k][1]).err # Nil =>
             /\ err # Nil
             /\ k \in Visited => err = ErrSyntax
        /\ err = Nil => IntegerField(r, k) = Atoi(u[k][1]).val

\* the text of k after its index segment, without the brackets around it:
\* "data" for columns[0][data], "search][value" for columns[0][search][value];
\* "" when k does not end with "]"
FieldText(k) ==
  LET c == FirstClose(k, 1)
  IN IF c # 0 /\ c + 2 <= Len(k) - 1 /\ Ch(k, c + 1) = "[" /\ Ch(k, Len(k)) = "]"
     THEN SubSeq(k, c + 2, Len(k) - 1)
     ELSE ""

\* the keys of uv, with a value, that are fam[<i>][...] with a base-10 index
IndexedKeys(uv, fam) ==
  {k \in DOMAIN uv :
     /\ Len(uv[k]) >= 1
     /\ HasPrefix(k, fam \o "[")
     /\ Brackets(k) >= 2
     /\ AllDigits(IndexText(k))}

\* the index of such a key
IndexOf(k) == DecVal(IndexText(k))

\* the first values uv supplies for the field f of fam[i]
Supplied(uv, fam, i, f) ==
  {uv[k][1] : k \in {x \in IndexedKeys(uv, fam) : IndexOf(x) = i /\ FieldText(x) = f}}

\* 1 + the largest index of the keys K, 0 when there is none
LenFor(K) ==
  IF K = {} THEN 0
  ELSE 1 + (CHOOSE n \in {IndexOf(k) : k \in K} : \A k \in K : IndexOf(k) <= n)

\* the field holds the decoded value of every value supplied for it, and the
\* zero value when none is
Holds(field, S, decoded(_), zero) ==
  IF S = {} THEN field = zero ELSE \A v \in S : field = decoded(v)

Verbatim(v) == v
IsTrue(v) == v = "true"
Number(v) == Atoi(v).val
Direction(v) ==
  IF v = "asc" THEN OrderAscending
  ELSE IF v = "desc" THEN OrderDescending
  ELSE ZeroOrder.Dir

\* C14 (as claimed): sparse index growth.  After a successful ParseURLValues,
\* whatever the order of the keys, Columns has length 1 + the largest index of
\* a columns[i][...] key (0 when there is none), each field supplied for an
\* index holds its decoded value, and every field not supplied is at its zero
\* value; the same holds for Order and the order[i][...] keys.
C14_SparseGrowth ==
  pc = "returned" /\ err = Nil =>
    /\ Len(r.Columns) = LenFor(IndexedKeys(u, "columns"))
    /\ \A i \in 0..(Len(r.Columns) - 1) :
         LET c == r.Columns[i + 1]
             S(f) == Supplied(u, "columns", i, f)
         IN /\ Holds(c.Data, S("data"), Verbatim, "")
            /\ Holds(c.Name, S("name"), Verbatim, "")
            /\ Holds(c.Searchable, S("searchable"), IsTrue, FALSE)
            /\ Holds(c.Orderable, S("orderable"), IsTrue, FALSE)
            /\ Holds(c.Search.Value, S("search][value"), Verbatim, "")
            /\ Holds(c.Search.Regex, S("search][regex"), IsTrue, FALSE)
    /\ Len(r.Order) = LenFor(IndexedKeys(u, "order"))
    /\ \A i \in 0..(Len(r.Order) - 1) :
         LET o == r.Order[i + 1]
             S(f) == Supplied(u, "order", i, f)
         IN /\ Holds(o.Column, S("column"), Number, 0)
            /\ Holds(o.Dir, S("dir"), Direction, ZeroOrder.Dir)

\* C15 (as claimed): row decode depends only on its input.  After
\* Row.UnmarshalJSON succeeds on a JSON array the Row's RowID, RowClass,
\* RowData and RowAttr are empty whatever the destination held before, so the
\* decode of the same value into any other destination yields an equal Row.
C15_ArrayDecodeIgnoresPrior ==
  pc = "rowDecoded" /\ err = Nil /\ doc.t = "arr" =>
    /\ row.RowID = ""
    /\ row.RowClass = ""
    /\ row.RowData = EmptyMap
    /\ row.RowAttr = EmptyMap
    /\ \A p \in PriorRows : RowUnmarshalJSON(p, doc).row = row

\* C16 (as claimed): row decode failure is all-or-nothing.  When
\* Row.UnmarshalJSON returns an error the destination Row is as it was before
\* the call: neither Data nor a metadata field is modified.
C16_FailedDecodeKeepsRow ==
  pc = "rowDecoded" /\ err # Nil => row = prior

\* C17 (as claimed): handler success path.  For every form ParseURLValues
\* decodes without error, ServeHTTP runs to completion and writes a
\* status-200 JSON Response whose draw is the request's draw, whose
\* recordsTotal is the collection's count, and whose data holds one Row per
\* record the query returned, with that record as its Data.
C17_HandlerSuccess ==
  pc \in {"served", "panicked"} /\ err = Nil =>
    /\ pc = "served"
    /\ writer.status = StatusOK
    /\ writer.body.t = "obj"
    /\ writer.body.o["draw"] = JNum(dtRequest.Draw)
    /\ writer.body.o["recordsTotal"] = JNum(coll.count)
    /\ writer.body.o["data"].t = "arr"
    /\ Len(writer.body.o["data"].a) = Len(coll.Result)
    /\ \A i \in 1..Len(coll.Result) :
         writer.body.o["data"].a[i] = StringMapJSON(coll.Result[i])

\* the i of the set S of numbers with j elements of S up to it
Nth(S, j) == CHOOSE i \in S : Cardinality({x \in S : x <= i}) = j

\* C18: CreateFilter shape.  The global clause is an $or with one entry per
\* column, in column order, keyed by the column's Data, whose pattern is the
\* global search value when Search.Regex is true and the regex-escaped value
\* otherwise (so "\^t\.\$" for the literal "^t.$"); a per-column entry, its
\* pattern chosen the same way from the column's Search, exists exactly for
\* the columns whose Search.Value is non-empty; the result is the $or alone
\* when no column has a search value, and otherwise the $and of the $or and
\* the $and of the per-column entries.
C18_FilterShape ==
  pc = "filtered" =>
    LET f == query.Filter
        cols == dtRequest.Columns
        n == Len(cols)
        searched == {i \in 1..n : cols[i].Search.Value # ""}
        Pattern(s) == IF s.Regex THEN s.Value ELSE QuoteMeta(s.Value)
        or == IF searched = {} THEN f ELSE f["$and"][1]
    IN /\ DOMAIN f = (IF searched = {} THEN {"$or"} ELSE {"$and"})
       /\ searched # {} => Len(f["$and"]) = 2
       /\ DOMAIN or = {"$or"}
       /\ Len(or["$or"]) = n
       /\ \A i \in 1..n :
            /\ DOMAIN or["$or"][i] = {cols[i].Data}
            /\ or["$or"][i][cols[i].Data].Pattern = Pattern(dtRequest.Search)
            /\ dtRequest.Search = [Value |-> "^t.$", Regex |-> FALSE] =>
                 or["$or"][i][cols[i].Data].Pattern = "\\^t\\.\\$"
       /\ searched # {} =>
            /\ DOMAIN f["$and"][2] = {"$and"}
            /\ LET column == f["$and"][2]["$and"]
               IN /\ Len(column) = Cardinality(searched)
                  /\ \A j \in 1..Len(column) :
                       LET c == cols[Nth(searched, j)]
                       IN /\ DOMAIN column[j] = {c.Data}
                          /\ column[j][c.Data].Pattern = Pattern(c.Search)

\* C18's case: a filter of two columns, the second with a literal search of
\* its own and the first with none, under a literal global search.
C18_Witness ==
  /\ pc = "filtered"
  /\ ~dtRequest.Search.Regex
  /\ Len(dtRequest.Columns) = 2
  /\ dtRequest.Columns[1].Search.Value = ""
  /\ dtRequest.Columns[2].Search = [Value |-> "a.b", Regex |-> FALSE]
  /\ dtRequest.Columns[2].Data = "bar"
  /\ query.Filter["$and"][2]["$and"] = <<M("bar", RegEx("a\\.b"))>>

\* C19: SortQuery mapping.  For a Request whose Order[i].Column index into
\* Columns, SortQuery hands Sort len(Order) fields in Order's sequence, the
\* i-th being Columns[Order[i].Column].Data with the prefix "-" if and only
\* if Order[i].Dir is descending; RangeQuery then applies Skip(Start) and
\* Limit(Length) unchanged.
C19_SortAndRange ==
  pc = "ranged" =>
    /\ ~SortQueryPanics(dtRequest)
    /\ Len(query.SortValue) = Len(dtRequest.Order)
    /\ \A i \in 1..Len(dtRequest.Order) :
         LET o == dtRequest.Order[i]
             data == dtRequest.Columns[o.Column + 1].Data
         IN IF o.Dir = "desc"
            THEN query.SortValue[i] = "-" \o data
            ELSE query.SortValue[i] = data
    /\ query.SkipValue = dtRequest.Start
    /\ query.LimitValue = dtRequest.Length

\* C19's case: two orders on two columns, the first descending on the second
\* column and the second with the empty direction on the first column.
C19_Witness ==
  /\ pc = "ranged"
  /\ dtRequest.Order = <<[Column |-> 1, Dir |-> OrderDescending], [Column |-> 0, Dir |-> ""]>>
  /\ dtRequest.Columns[1].Data = "foo"
  /\ dtRequest.Columns[2].Data = "bar"
  /\ query.SortValue = <<"-bar", "foo">>
  /\ query.SkipValue = 5
  /\ query.LimitValue = -1

====
